---- MODULE Spec2Model ----
(***************************************************************************)
(* A model of the resync of one cluster's resources and edges against the  *)
(* graph store (handlers.resyncCluster) and of the value normalizer        *)
(* (handlers.valueToString).                                               *)
(*                                                                         *)
(* The graph store, the chunked mutation executor, the property encoder    *)
(* and processSyncErrors live in packages that are not part of the         *)
(* sources at hand (pkg/dbconnector and the rest of pkg/handlers); they    *)
(* are modelled from their documented contracts and are marked as such.    *)
(***************************************************************************)
EXTENDS Integers, Sequences, FiniteSets, Bags, TLC

VARIABLES
    storeNodes,   \* the store's nodes: a bag of [uid, cluster, props]
    storeEdges,   \* the store's intra-cluster edges: a bag of [SourceUID, EdgeType, DestUID, cluster]
    inv,          \* inv[p]: the locals of invocation p of resyncCluster
    reliable,     \* whether the store answers every query and applies every item
    norm,         \* a direct call of valueToString: its argument and what it returned
    conn,         \* what the store connection check reports now: [alive, err]
    served        \* the HTTP responses the probes have written, oldest first

vars == <<storeNodes, storeEdges, inv, reliable, norm, conn, served>>

---------------------------------------------------------------------------
(* Bounds of the model. *)

MaxCopies == 2     \* most records the store holds for one UID or one edge key
MaxRes == 2        \* most resources in one incoming payload
MaxEdges == 2      \* most edges in one incoming payload

---------------------------------------------------------------------------
(* Go values (interface{}): a type tag and the payload of that type. *)

VInt64(n) == [t |-> "int64", i |-> n, s |-> "", l |-> <<>>]
VInt(n) == [t |-> "int", i |-> n, s |-> "", l |-> <<>>]
VStr(x) == [t |-> "string", i |-> 0, s |-> x, l |-> <<>>]
VSlice(xs) == [t |-> "slice", i |-> 0, s |-> "", l |-> xs]
VBool(b) == [t |-> "bool", i |-> IF b THEN 1 ELSE 0, s |-> "", l |-> <<>>]
VNil == [t |-> "nil", i |-> 0, s |-> "", l |-> <<>>]

Digit(d) == CASE d = 0 -> "0" [] d = 1 -> "1" [] d = 2 -> "2" [] d = 3 -> "3"
              [] d = 4 -> "4" [] d = 5 -> "5" [] d = 6 -> "6" [] d = 7 -> "7"
              [] d = 8 -> "8" [] OTHER -> "9"

RECURSIVE FormatNat(_)
FormatNat(n) == IF n < 10 THEN Digit(n) ELSE FormatNat(n \div 10) \o Digit(n % 10)

\* strconv.FormatInt(n, 10) and strconv.Itoa(n)
FormatInt(n) == IF n < 0 THEN "-" \o FormatNat(0 - n) ELSE FormatNat(n)

\* A normalizer whose type switch has no case for int.
valueToString_NoInt(value) ==
    CASE value.t = "int64" -> FormatInt(value.i)
      [] value.t = "string" -> value.s
      [] OTHER -> ""

\* valueToString: int64 and int in base 10, a string as it is, anything else "".
valueToString(value) ==
    CASE value.t = "int64" -> FormatInt(value.i)
      [] value.t = "int" -> FormatInt(value.i)
      [] value.t = "string" -> value.s
      [] OTHER -> ""

\* fmt.Sprintf("%s-%s->%s", sourceUID, edgeType, destUID)
getEdgeUID(sourceUID, edgeType, destUID) ==
    sourceUID \o "-" \o edgeType \o "->" \o destUID

\* A Go map read: the zero value (nil interface) for a key that is not there.
\* No direct call of valueToString is under way.
NoCall == [value |-> VNil, returned |-> FALSE, stringValue |-> "", direct |-> FALSE]

\* A caller passes value to valueToString.
CallValueToString(value) ==
    [value |-> value, returned |-> FALSE, stringValue |-> "", direct |-> TRUE]

\* The call returns.
Normalize ==
    /\ norm.direct /\ ~norm.returned
    /\ norm' = [norm EXCEPT !.returned = TRUE, !.stringValue = valueToString(norm.value)]
    /\ UNCHANGED <<storeNodes, storeEdges, inv, reliable, conn, served>>

\* dbconnector.CheckDataConnection() reports the connection alive, no error.
Connected == [alive |-> TRUE, err |-> FALSE]

Lookup(props, key) == IF key \in DOMAIN props THEN props[key] ELSE VNil

EmptyMap == [k \in {} |-> VNil]

MapDelete(m, key) == [k \in DOMAIN m \ {key} |-> m[k]]

MapPut(m, key, val) == [k \in DOMAIN m \cup {key} |-> IF k = key THEN val ELSE m[k]]

---------------------------------------------------------------------------
(* The universe the payloads and the initial store are drawn from. *)

ClusterName == "c1"

UIDs == {"uid-a", "uid-b"}

Ready == [status |-> VStr("Ready")]
NotReady == [status |-> VStr("NotReady")]

\* db.Resource: UID, Properties, and whether EncodeProperties succeeds on it.
Resource(uid, props, ok) == [UID |-> uid, Properties |-> props, encodes |-> ok]

Resources ==
    {Resource("uid-a", Ready, TRUE), Resource("uid-a", NotReady, TRUE),
     Resource("uid-b", Ready, TRUE)}

\* db.Edge
Edge(s, t, d) == [SourceUID |-> s, EdgeType |-> t, DestUID |-> d]

Edges == {Edge("uid-a", "owns", "uid-b"), Edge("uid-b", "owns", "uid-a")}

SeqsUpTo(S, n) == UNION {[1..k -> S] : k \in 0..n}

\* rg2.Node as the cluster query returns it.
Node(uid, cluster, props) == [uid |-> uid, cluster |-> cluster, props |-> props]

StoredEdge(e, cluster) ==
    [SourceUID |-> e.SourceUID, EdgeType |-> e.EdgeType, DestUID |-> e.DestUID,
     cluster |-> cluster]

EdgeKey(e) == getEdgeUID(e.SourceUID, e.EdgeType, e.DestUID)

\* The UIDs of a list of resources and the keys of a list of edges, in order.
UIDList(resources) == [i \in DOMAIN resources |-> resources[i].UID]

KeyList(edges) == [i \in DOMAIN edges |-> EdgeKey(edges[i])]

---------------------------------------------------------------------------
(* Bags and sequences. *)

BagSize(B) == BagCardinality(B)

\* The bag without the records of the set drop.
BagRemoveAll(B, drop) == [x \in DOMAIN B \ drop |-> B[x]]

BagAdd(B, x) == B (+) SetToBag({x})

RECURSIVE BagSeq(_)
\* The records of a bag in one order.
BagSeq(B) ==
    IF DOMAIN B = {} THEN <<>>
    ELSE LET x == CHOOSE y \in DOMAIN B : TRUE
         IN  <<x>> \o BagSeq(B (-) SetToBag({x}))

RECURSIVE SetSeq(_)
SetSeq(S) == IF S = {} THEN <<>>
             ELSE LET x == CHOOSE y \in S : TRUE IN <<x>> \o SetSeq(S \ {x})

\* Every ordering of a finite set, as the iteration over a Go map yields.
Orderings(S) == {f \in [1..Cardinality(S) -> S] : \A x \in S : \E i \in DOMAIN f : f[i] = x}

Range(f) == {f[i] : i \in DOMAIN f}

Occurrences(f, x) == Cardinality({i \in DOMAIN f : f[i] = x})

---------------------------------------------------------------------------
(* The graph store (db.Store): modelled from its contract.  A node is      *)
(* identified by its _uid and carries the cluster it was inserted for; an  *)
(* intra-cluster edge is identified by its endpoints' UIDs and its type    *)
(* and carries the cluster of its endpoints.  CREATE adds a record even    *)
(* when an equal one is there, so the store can hold duplicates.           *)

\* MATCH (n {cluster: c}) RETURN n
ClusterNodes(nodes, cluster) == BagRemoveAll(nodes, {n \in DOMAIN nodes : n.cluster # cluster})

\* MATCH (n {_uid: uid}) DELETE n
DeleteNodesByUID(nodes, uids) == BagRemoveAll(nodes, {n \in DOMAIN nodes : n.uid \in uids})

\* MATCH (s {cluster: c})-[r]->(d {cluster: c}) WHERE not inter-cluster
ClusterEdges(edges, cluster) == BagRemoveAll(edges, {e \in DOMAIN edges : e.cluster # cluster})

\* ... WHERE size(edges) > 1 UNWIND edges[1..] AS dupedges DELETE dupedges
CollapseDuplicateEdges(edges, cluster) ==
    [e \in DOMAIN edges |-> IF e.cluster = cluster THEN 1 ELSE edges[e]]

NodeCopies(nodes, uid) == BagSize(BagRemoveAll(nodes, {n \in DOMAIN nodes : n.uid # uid}))

EdgeCopies(edges, cluster, key) ==
    BagSize(BagRemoveAll(edges, {e \in DOMAIN edges : e.cluster # cluster \/ EdgeKey(e) # key}))

\* The orders in which the store can return the records of a result, up to
\* those a scan that keeps the first record of each identity cannot tell
\* apart: any record of an identity may come first.
ResultOrders(B, id) ==
    LET ids == {id[x] : x \in DOMAIN B}
        firsts == {f \in [ids -> DOMAIN B] : \A k \in ids : id[f[k]] = k}
    IN  {BagSeq(SetToBag(Range(f))) \o BagSeq(B (-) SetToBag(Range(f))) : f \in firsts}

\* Resource.EncodeProperties(): the properties in their stored form, or an error.
EncodeProperties(r) == [err |-> ~r.encodes, props |-> r.Properties]

---------------------------------------------------------------------------
(* The chunked mutation executor (db.ChunkedInsert and the like), from its     *)
(* contract.  The items are applied in order; each item reached succeeds   *)
(* or fails on its own; a connection error stops the batch before its end. *)

\* What one call can report for a batch of n items: how many items it
\* reached and which of them failed.
AnyOutcome(n) == UNION {{[reached |-> k, failed |-> F] : F \in SUBSET (1..k)} : k \in 0..n}

\* The outcomes of a batch: an item that cannot be written fails when it is
\* reached; a reliable store reaches every item and fails no other.
Outcomes(items, cannotSucceed) ==
    {o \in AnyOutcome(Len(items)) :
        /\ \A i \in 1..o.reached : i \in cannotSucceed => i \in o.failed
        /\ reliable => /\ o.reached = Len(items)
                       /\ o.failed \subseteq cannotSucceed}

\* Whether a query fails.
QueryFailures == IF reliable THEN {FALSE} ELSE BOOLEAN

Succeeded(o) == (1..o.reached) \ o.failed

\* db.ChunkedResponse
Response(o, ids) ==
    [SuccessfulResources |-> Cardinality(Succeeded(o)),
     ResourceErrors |-> {ids[i] : i \in o.failed},
     ConnectionError |-> o.reached < Len(ids)]

NoResponse == [SuccessfulResources |-> 0, ResourceErrors |-> {}, ConnectionError |-> FALSE]

RECURSIVE CreateNodes(_, _, _, _)
\* CREATE one node per resource that succeeded.
CreateNodes(nodes, resources, ok, cluster) ==
    IF ok = {} THEN nodes
    ELSE LET i == CHOOSE j \in ok : TRUE
         IN  CreateNodes(BagAdd(nodes, Node(resources[i].UID, cluster,
                                            EncodeProperties(resources[i]).props)),
                         resources, ok \ {i}, cluster)

RECURSIVE SetNodes(_, _, _, _)
\* MATCH (n {_uid: uid}) SET n = props, for each resource that succeeded, in order.
SetNodes(nodes, resources, ok, i) ==
    IF i > Len(resources) THEN nodes
    ELSE IF i \notin ok THEN SetNodes(nodes, resources, ok, i + 1)
    ELSE LET r == resources[i]
             hit == {n \in DOMAIN nodes : n.uid = r.UID}
             rest == BagRemoveAll(nodes, hit)
             RECURSIVE Rewrite(_, _)
             Rewrite(B, S) ==
                 IF S = {} THEN B
                 ELSE LET n == CHOOSE m \in S : TRUE
                      IN  Rewrite(B (+) [x \in {Node(n.uid, n.cluster, EncodeProperties(r).props)}
                                            |-> nodes[n]], S \ {n})
         IN  SetNodes(Rewrite(rest, hit), resources, ok, i + 1)

RECURSIVE CreateEdges(_, _, _, _)
CreateEdges(edges, items, ok, cluster) ==
    IF ok = {} THEN edges
    ELSE LET i == CHOOSE j \in ok : TRUE
         IN  CreateEdges(BagAdd(edges, StoredEdge(items[i], cluster)), items, ok \ {i}, cluster)

RemoveEdges(edges, items, ok, cluster) ==
    BagRemoveAll(edges, {e \in DOMAIN edges :
                            /\ e.cluster = cluster
                            /\ \E i \in ok : EdgeKey(items[i]) = EdgeKey(e)})

\* processSyncErrors: one SyncError per entry of the executor's error map.
processSyncErrors(resourceErrors) == SetSeq(resourceErrors)

---------------------------------------------------------------------------
(* The locals of one invocation of resyncCluster. *)

NoStats ==
    [TotalAdded |-> 0, TotalUpdated |-> 0, TotalDeleted |-> 0,
     TotalEdgesAdded |-> 0, TotalEdgesDeleted |-> 0,
     AddErrors |-> <<>>, UpdateErrors |-> <<>>, DeleteErrors |-> <<>>,
     AddEdgeErrors |-> <<>>, DeleteEdgeErrors |-> <<>>]

\* The locals at entry.  metrics is the caller's SyncMetrics: each timestamp
\* set so far, as the number of stages that were over when it was set.  The
\* fields past metrics are not variables of the code: they record what the
\* invocation did (the stages it went through, the queries it issued, the
\* warnings it logged, the values it normalized, the stages that failed, the
\* baselines its diffs started from).
Entry(cluster, resources, edges) ==
    [pc |-> "queryResources", clusterName |-> cluster,
     resources |-> resources, edges |-> edges,
     stats |-> NoStats, err |-> "nil",
     result |-> <<>>,
     existingResources |-> EmptyMap, duplicatedResources |-> EmptyMap,
     resourcesToAdd |-> <<>>, resourcesToUpdate |-> <<>>, deleteUIDS |-> <<>>,
     insertResponse |-> NoResponse, updateResponse |-> NoResponse,
     deleteResponse |-> NoResponse,
     existingEdges |-> EmptyMap, dupCount |-> 0, existingEdgesMapLength |-> 0,
     verifyEdges |-> {}, edgesToAdd |-> <<>>, edgesToDelete |-> <<>>,
     insertEdgeResponse |-> NoResponse, deleteEdgeResponse |-> NoResponse,
     metrics |-> EmptyMap,
     trace |-> <<>>, queries |-> {}, warnings |-> {}, normalized |-> {}, failures |-> <<>>,
     baseline |-> EmptyMap, edgeBaseline |-> EmptyMap,
     allOk |-> TRUE, cleanStart |-> FALSE, rerun |-> FALSE]

Idle(cluster) == [Entry(cluster, <<>>, <<>>) EXCEPT !.pc = "idle"]

\* A store query as issued: what it is, its argument, and whether the string
\* went through db.SanitizeQuery.
Query(kind, arg, sanitized) == [kind |-> kind, arg |-> arg, sanitized |-> sanitized]

NoDuplicates(nodes, edges, cluster) ==
    /\ \A n \in DOMAIN nodes : NodeCopies(nodes, n.uid) = 1
    /\ \A e \in DOMAIN edges : e.cluster = cluster => EdgeCopies(edges, cluster, EdgeKey(e)) = 1

---------------------------------------------------------------------------
(* resyncCluster, stage by stage. *)

\* The call: the caller hands in the cluster's resources and edges.
Call(p, payloads) ==
    /\ inv[p].pc = "idle"
    /\ \E pl \in payloads :
          inv' = [inv EXCEPT ![p] =
                    [Entry(inv[p].clusterName, pl.resources, pl.edges) EXCEPT
                        !.cleanStart = NoDuplicates(storeNodes, storeEdges, inv[p].clusterName)]]
    /\ UNCHANGED <<storeNodes, storeEdges, reliable, norm, conn, served>>

\* The next cycle, with the same snapshot.  (A cycle with another snapshot
\* starts from a store the first call starts from as well.)
CallAgain(p) ==
    /\ inv[p].pc = "done"
    /\ inv' = [inv EXCEPT ![p] =
                 [Entry(inv[p].clusterName, inv[p].resources, inv[p].edges) EXCEPT
                     !.cleanStart = NoDuplicates(storeNodes, storeEdges, inv[p].clusterName),
                     !.rerun = inv[p].allOk /\ inv[p].cleanStart]]
    /\ UNCHANGED <<storeNodes, storeEdges, reliable, norm, conn, served>>

RECURSIVE ScanNodes_Overwrites(_, _, _, _)
\* A scan that keeps the last record of a UID and counts no duplicate.
ScanNodes_Overwrites(result, i, existing, duplicated) ==
    IF i > Len(result)
    THEN [existingResources |-> existing, duplicatedResources |-> duplicated]
    ELSE ScanNodes_Overwrites(result, i + 1, MapPut(existing, result[i].uid, result[i]),
                              duplicated)

RECURSIVE ScanNodes(_, _, _, _)
\* The scan of the cluster's nodes: the first record of a UID is the
\* existing resource, each further one counts as a duplicate.
ScanNodes(result, i, existing, duplicated) ==
    IF i > Len(result) THEN [existingResources |-> existing, duplicatedResources |-> duplicated]
    ELSE LET rgNode == result[i]
             existingResourceUID == rgNode.uid
         IN  IF existingResourceUID \in DOMAIN existing
             THEN ScanNodes(result, i + 1, existing,
                            IF existingResourceUID \notin DOMAIN duplicated
                            THEN MapPut(duplicated, existingResourceUID, 1)
                            ELSE MapPut(duplicated, existingResourceUID,
                                        duplicated[existingResourceUID] + 1))
             ELSE ScanNodes(result, i + 1, MapPut(existing, existingResourceUID, rgNode),
                            duplicated)

\* What db.Store.Query hands back with an error.  The code of the store is
\* not at hand; the guard on the edge scan ("to avoid panic if there is an
\* error executing query") says the result of a failed query cannot be
\* iterated, so it may be nil as well as empty.
FailedResults == {"nil", "empty"}

\* A query without the cluster in its pattern: MATCH (n) RETURN n.
QueryResources_AllClusters(p) ==
    /\ inv[p].pc = "queryResources"
    /\ \E failed \in QueryFailures :
       \E failedResult \in IF failed THEN FailedResults ELSE {"none"} :
       \E result \in IF failed THEN {<<>>}
                     ELSE ResultOrders(storeNodes, [n \in DOMAIN storeNodes |-> n.uid]) :
          LET maps == ScanNodes(result, 1, EmptyMap, EmptyMap)
          IN  inv' = [inv EXCEPT ![p] = [@ EXCEPT
                        !.pc = IF failedResult = "nil" THEN "panicked" ELSE "deleteDuplicates",
                        !.trace = Append(@, "queryResources"),
                        !.err = IF failed THEN "resourceQuery" ELSE @,
                        !.result = result,
                        !.existingResources = maps.existingResources,
                        !.duplicatedResources = maps.duplicatedResources,
                        !.queries = @ \cup {Query("clusterNodes", inv[p].clusterName, TRUE)},
                        !.failures = IF failed THEN Append(@, "resourceQuery") ELSE @,
                        !.allOk = @ /\ ~failed]]
    /\ UNCHANGED <<storeNodes, storeEdges, reliable, norm, conn, served>>

\* Get the existing resources of the cluster and build the two maps.  The
\* scan calls result.Next() whether or not the query failed: on a nil result
\* that is a nil pointer dereference, and the invocation panics.
QueryResources(p) ==
    /\ inv[p].pc = "queryResources"
    /\ \E failed \in QueryFailures :
       \E failedResult \in IF failed THEN FailedResults ELSE {"none"} :
       \E result \in IF failed THEN {<<>>}
                     ELSE ResultOrders(ClusterNodes(storeNodes, inv[p].clusterName),
                                       [n \in DOMAIN storeNodes |-> n.uid]) :
          LET maps == ScanNodes(result, 1, EmptyMap, EmptyMap)
          IN  inv' = [inv EXCEPT ![p] = [@ EXCEPT
                        !.pc = IF failedResult = "nil" THEN "panicked" ELSE "deleteDuplicates",
                        !.trace = Append(@, "queryResources"),
                        !.err = IF failed THEN "resourceQuery" ELSE @,
                        !.result = result,
                        !.existingResources = maps.existingResources,
                        !.duplicatedResources = maps.duplicatedResources,
                        !.queries = @ \cup {Query("clusterNodes", inv[p].clusterName, TRUE)},
                        !.failures = IF failed THEN Append(@, "resourceQuery") ELSE @,
                        !.allOk = @ /\ ~failed]]
    /\ UNCHANGED <<storeNodes, storeEdges, reliable, norm, conn, served>>

\* A resolver that deletes the records of a duplicated UID and leaves the
\* UID among the existing resources.
DeleteDuplicates_KeepsUID(p) ==
    /\ inv[p].pc = "deleteDuplicates"
    /\ \E failed \in SUBSET (IF reliable THEN {} ELSE DOMAIN inv[p].duplicatedResources) :
          /\ storeNodes' = DeleteNodesByUID(storeNodes,
                                            DOMAIN inv[p].duplicatedResources \ failed)
          /\ inv' = [inv EXCEPT ![p] = [@ EXCEPT
                        !.pc = "diffResources", !.trace = Append(@, "deleteDuplicates"),
                        !.baseline = inv[p].existingResources,
                        !.queries = @ \cup {Query("deleteByUID", u, TRUE) :
                                              u \in DOMAIN inv[p].duplicatedResources},
                        !.failures = IF failed # {} THEN Append(@, "deleteDuplicates")
                                     ELSE @,
                        !.allOk = @ /\ failed = {}]]
    /\ UNCHANGED <<storeEdges, reliable, norm, conn, served>>

\* Delete every record of a duplicated UID and drop the UID from the
\* existing resources.  A deletion that fails is logged and nothing more.
DeleteDuplicates(p) ==
    /\ inv[p].pc = "deleteDuplicates"
    /\ \E failed \in SUBSET (IF reliable THEN {} ELSE DOMAIN inv[p].duplicatedResources) :
          /\ storeNodes' = DeleteNodesByUID(storeNodes,
                                            DOMAIN inv[p].duplicatedResources \ failed)
          /\ LET existing == [u \in DOMAIN inv[p].existingResources
                                      \ DOMAIN inv[p].duplicatedResources
                                |-> inv[p].existingResources[u]]
             IN  inv' = [inv EXCEPT ![p] = [@ EXCEPT
                           !.pc = "diffResources", !.trace = Append(@, "deleteDuplicates"),
                           !.existingResources = existing,
                           !.baseline = existing,
                           !.queries = @ \cup {Query("deleteByUID", u, TRUE) :
                                                 u \in DOMAIN inv[p].duplicatedResources},
                           !.failures = IF failed # {} THEN Append(@, "deleteDuplicates")
                                        ELSE @,
                           !.allOk = @ /\ failed = {}]]
    /\ UNCHANGED <<storeEdges, reliable, norm, conn, served>>

\* reflect.DeepEqual of a property and a []interface{}.
DeepEqual(a, b) == a = b

\* A comparison that never reads the stored value.
PropertyDiffers_NoExisting(newResource, key, value, existingResource) ==
    LET interfaceTypeTrue == value.t = "slice"
        existingInterfaceTypeTrue == Lookup(existingResource.props, key).t = "slice"
        isInterface == interfaceTypeTrue /\ existingInterfaceTypeTrue
        stringValue == IF isInterface THEN "" ELSE valueToString(value)
        existingProperty == ""
    IN  \/ isInterface /\ ~DeepEqual(Lookup(newResource.Properties, key),
                                     Lookup(existingResource.props, key))
        \/ existingProperty # stringValue

\* One round of the loop over the encoded properties: whether this property
\* makes the resource an update.
PropertyDiffers(newResource, key, value, existingResource) ==
    LET interfaceTypeTrue == value.t = "slice"
        existingValue == Lookup(existingResource.props, key)
        existingInterfaceTypeTrue == existingValue.t = "slice"
        isInterface == interfaceTypeTrue /\ existingInterfaceTypeTrue
        stringValue == IF isInterface THEN "" ELSE valueToString(value)
        existingProperty == IF isInterface THEN "" ELSE valueToString(existingValue)
    IN  \/ isInterface /\ ~DeepEqual(Lookup(newResource.Properties, key), existingValue)
        \/ existingProperty # stringValue

\* What one round of that loop hands to valueToString: the encoded value and
\* the stored one, unless both are []interface{}.
Normalized(key, value, existingResource) ==
    LET interfaceTypeTrue == value.t = "slice"
        existingValue == Lookup(existingResource.props, key)
        existingInterfaceTypeTrue == existingValue.t = "slice"
    IN  IF interfaceTypeTrue /\ existingInterfaceTypeTrue THEN {}
        ELSE {[key |-> key, value |-> value, existingValue |-> existingValue]}

\* The resource is appended to resourcesToUpdate, once, when its encoding
\* fails or when the loop meets a property that differs.
NeedsUpdate(newResource, existingResource) ==
    LET encoded == EncodeProperties(newResource)
    IN  \/ encoded.err
        \/ \E key \in DOMAIN encoded.props :
              PropertyDiffers(newResource, key, encoded.props[key], existingResource)

RECURSIVE DiffResourcesFrom_KeepsMatched(_, _, _, _, _)
\* A loop that leaves a matched UID among the existing resources.
DiffResourcesFrom_KeepsMatched(resources, i, existing, toAdd, toUpdate) ==
    IF i > Len(resources)
    THEN [existingResources |-> existing, resourcesToAdd |-> toAdd,
          resourcesToUpdate |-> toUpdate]
    ELSE LET newResource == resources[i]
         IN  IF newResource.UID \notin DOMAIN existing
             THEN DiffResourcesFrom_KeepsMatched(resources, i + 1, existing,
                                                 Append(toAdd, newResource), toUpdate)
             ELSE DiffResourcesFrom_KeepsMatched(
                      resources, i + 1, existing, toAdd,
                      IF NeedsUpdate(newResource, existing[newResource.UID])
                      THEN Append(toUpdate, newResource) ELSE toUpdate)

RECURSIVE DiffResourcesFrom(_, _, _, _, _)
\* The loop over the incoming resources.
DiffResourcesFrom(resources, i, existing, toAdd, toUpdate) ==
    IF i > Len(resources)
    THEN [existingResources |-> existing, resourcesToAdd |-> toAdd,
          resourcesToUpdate |-> toUpdate]
    ELSE LET newResource == resources[i]
         IN  IF newResource.UID \notin DOMAIN existing
             THEN DiffResourcesFrom(resources, i + 1, existing,
                                    Append(toAdd, newResource), toUpdate)
             ELSE DiffResourcesFrom(resources, i + 1, MapDelete(existing, newResource.UID),
                                    toAdd,
                                    IF NeedsUpdate(newResource, existing[newResource.UID])
                                    THEN Append(toUpdate, newResource) ELSE toUpdate)

\* Every pair of values the loop can hand to valueToString: those of the
\* resources it compares (the first of a UID that is among the existing
\* resources, when its properties encode), whichever property comes first.
NormalizerCalls(resources, existing) ==
    UNION {UNION {Normalized(key, EncodeProperties(resources[i]).props[key],
                             existing[resources[i].UID]) :
                     key \in DOMAIN EncodeProperties(resources[i]).props} :
              i \in {j \in DOMAIN resources :
                        /\ resources[j].UID \in DOMAIN existing
                        /\ \A k \in 1..(j - 1) : resources[k].UID # resources[j].UID
                        /\ ~EncodeProperties(resources[j]).err}}

DiffResources(p) ==
    /\ inv[p].pc = "diffResources"
    /\ LET d == DiffResourcesFrom(inv[p].resources, 1, inv[p].existingResources, <<>>, <<>>)
       IN  inv' = [inv EXCEPT ![p] = [@ EXCEPT
                     !.pc = "insertResources", !.trace = Append(@, "diffResources"),
                     !.existingResources = d.existingResources,
                     !.resourcesToAdd = d.resourcesToAdd,
                     !.resourcesToUpdate = d.resourcesToUpdate,
                     !.normalized = NormalizerCalls(inv[p].resources,
                                                    inv[p].existingResources)]]
    /\ UNCHANGED <<storeNodes, storeEdges, reliable, norm, conn, served>>

\* The outcomes of a batch of resources: one that cannot be encoded cannot
\* be written.
ResourceOutcomes(resources) ==
    Outcomes(resources, {i \in DOMAIN resources : ~resources[i].encodes})

WithinCopies(nodes) == \A n \in DOMAIN nodes : NodeCopies(nodes, n.uid) <= MaxCopies

\* A report that counts every item the executor answered for.
AfterBatch_CountsItems(response, errors, err, stage) ==
    [count |-> response.SuccessfulResources + Cardinality(response.ResourceErrors),
     errors |-> IF ~response.ConnectionError /\ response.ResourceErrors # {}
                THEN processSyncErrors(response.ResourceErrors) ELSE errors,
     err |-> IF response.ConnectionError THEN stage ELSE err]

\* A report that leaves the returned error alone on a connection error.
AfterBatch_DropsConnectionError(response, errors, err, stage) ==
    [count |-> response.SuccessfulResources,
     errors |-> IF ~response.ConnectionError /\ response.ResourceErrors # {}
                THEN processSyncErrors(response.ResourceErrors) ELSE errors,
     err |-> err]

\* What the code does with the executor's answer, the same way after each of
\* the five batches: the count is the successes, the connection error becomes
\* the returned error, and only without one the item errors are reported.
AfterBatch(response, errors, err, stage) ==
    [count |-> response.SuccessfulResources,
     errors |-> IF ~response.ConnectionError /\ response.ResourceErrors # {}
                THEN processSyncErrors(response.ResourceErrors) ELSE errors,
     err |-> IF response.ConnectionError THEN stage ELSE err]

Flawless(response) == ~response.ConnectionError /\ response.ResourceErrors = {}

InsertResources(p) ==
    /\ inv[p].pc = "insertResources"
    /\ \E o \in ResourceOutcomes(inv[p].resourcesToAdd) :
          LET insertResponse == Response(o, UIDList(inv[p].resourcesToAdd))
              after == AfterBatch(insertResponse, inv[p].stats.AddErrors, inv[p].err,
                                  "insertResources")
          IN  /\ storeNodes' = CreateNodes(storeNodes, inv[p].resourcesToAdd, Succeeded(o),
                                           inv[p].clusterName)
              /\ WithinCopies(storeNodes')
              /\ inv' = [inv EXCEPT ![p] = [@ EXCEPT
                           !.pc = "updateResources",
                           !.trace = Append(@, "insertResources"),
                           !.insertResponse = insertResponse,
                           !.metrics = MapPut(@, "NodeSyncStart", Len(inv[p].trace)),
                           !.stats = [@ EXCEPT !.TotalAdded = after.count,
                                               !.AddErrors = after.errors],
                           !.err = after.err,
                           !.failures = IF insertResponse.ConnectionError
                                        THEN Append(@, "insertResources") ELSE @,
                           !.allOk = @ /\ Flawless(insertResponse)]]
    /\ UNCHANGED <<storeEdges, reliable, norm, conn, served>>

UpdateResources(p) ==
    /\ inv[p].pc = "updateResources"
    /\ \E o \in ResourceOutcomes(inv[p].resourcesToUpdate) :
          LET updateResponse == Response(o, UIDList(inv[p].resourcesToUpdate))
              after == AfterBatch(updateResponse, inv[p].stats.UpdateErrors, inv[p].err,
                                  "updateResources")
          IN  /\ storeNodes' = SetNodes(storeNodes, inv[p].resourcesToUpdate,
                                        Succeeded(o), 1)
              /\ inv' = [inv EXCEPT ![p] = [@ EXCEPT
                           !.pc = "deleteResources",
                           !.trace = Append(@, "updateResources"),
                           !.updateResponse = updateResponse,
                           !.stats = [@ EXCEPT !.TotalUpdated = after.count,
                                               !.UpdateErrors = after.errors],
                           !.err = after.err,
                           !.failures = IF updateResponse.ConnectionError
                                        THEN Append(@, "updateResources") ELSE @,
                           !.allOk = @ /\ Flawless(updateResponse)]]
    /\ UNCHANGED <<storeEdges, reliable, norm, conn, served>>

\* The UIDs left in existingResources, in the order the map yields them.
DeleteUIDS(existingResources) ==
    {[i \in DOMAIN order |-> existingResources[order[i]].uid] :
        order \in Orderings(DOMAIN existingResources)}

DeleteResources(p) ==
    /\ inv[p].pc = "deleteResources"
    /\ \E deleteUIDS \in DeleteUIDS(inv[p].existingResources) :
       \E o \in Outcomes(deleteUIDS, {}) :
          LET deleteResponse == Response(o, deleteUIDS)
              after == AfterBatch(deleteResponse, inv[p].stats.DeleteErrors, inv[p].err,
                                  "deleteResources")
          IN  /\ storeNodes' = DeleteNodesByUID(storeNodes,
                                                {deleteUIDS[k] : k \in Succeeded(o)})
              /\ inv' = [inv EXCEPT ![p] = [@ EXCEPT
                           !.pc = "queryEdges",
                           !.trace = Append(@, "deleteResources"),
                           !.deleteUIDS = deleteUIDS,
                           !.deleteResponse = deleteResponse,
                           !.metrics = MapPut(@, "NodeSyncEnd", Len(inv[p].trace) + 1),
                           !.stats = [@ EXCEPT !.TotalDeleted = after.count,
                                               !.DeleteErrors = after.errors],
                           !.err = after.err,
                           !.failures = IF deleteResponse.ConnectionError
                                        THEN Append(@, "deleteResources") ELSE @,
                           !.allOk = @ /\ Flawless(deleteResponse)]]
    /\ UNCHANGED <<storeEdges, reliable, norm, conn, served>>

RECURSIVE ScanEdges(_, _, _, _)
\* The scan of the cluster's edges: a row whose key is in the map already
\* counts as a duplicate.
ScanEdges(rows, i, existing, dupCount) ==
    IF i > Len(rows) THEN [existingEdges |-> existing, dupCount |-> dupCount]
    ELSE LET e == rows[i]
             key == getEdgeUID(valueToString(e[1]), valueToString(e[2]), valueToString(e[3]))
         IN  IF key \notin DOMAIN existing
             THEN ScanEdges(rows, i + 1,
                            MapPut(existing, key,
                                   Edge(valueToString(e[1]), valueToString(e[2]),
                                        valueToString(e[3]))),
                            dupCount)
             ELSE ScanEdges(rows, i + 1, existing, dupCount + 1)

\* RETURN s._uid, type(r), d._uid
EdgeRows(records) ==
    [i \in DOMAIN records |-> <<VStr(records[i].SourceUID), VStr(records[i].EdgeType),
                                VStr(records[i].DestUID)>>]

\* Get the existing intra-cluster edges of the cluster and build the map.
QueryEdges(p) ==
    /\ inv[p].pc = "queryEdges"
    /\ \E failed \in QueryFailures :
       \E records \in IF failed THEN {<<>>}
                      ELSE ResultOrders(ClusterEdges(storeEdges, inv[p].clusterName),
                                        [e \in DOMAIN storeEdges |-> EdgeKey(e)]) :
          LET scan == ScanEdges(EdgeRows(records), 1, EmptyMap, 0)
          IN  inv' = [inv EXCEPT ![p] = [@ EXCEPT
                        !.pc = "dedupeEdges", !.trace = Append(@, "queryEdges"),
                        !.err = IF failed THEN "edgeQuery" ELSE @,
                        !.existingEdges = scan.existingEdges,
                        !.dupCount = scan.dupCount,
                        !.queries = @ \cup {Query("clusterEdges", inv[p].clusterName, FALSE)},
                        !.failures = IF failed THEN Append(@, "edgeQuery") ELSE @,
                        !.metrics = MapPut(@, "EdgeSyncStart", Len(inv[p].trace)),
                        !.allOk = @ /\ ~failed]]
    /\ UNCHANGED <<storeNodes, storeEdges, reliable, norm, conn, served>>

\* Delete the duplicate edges of the cluster in the store, in one query.
DedupeEdges(p) ==
    /\ inv[p].pc = "dedupeEdges"
    /\ \E failed \in QueryFailures :
          /\ storeEdges' = IF failed THEN storeEdges
                           ELSE CollapseDuplicateEdges(storeEdges, inv[p].clusterName)
          /\ inv' = [inv EXCEPT ![p] = [@ EXCEPT
                        !.pc = "diffEdges", !.trace = Append(@, "dedupeEdges"),
                        !.err = IF failed THEN "dedupeEdges" ELSE @,
                        !.edgeBaseline = inv[p].existingEdges,
                        !.failures = IF failed THEN Append(@, "dedupeEdges") ELSE @,
                        !.queries = @ \cup {Query("deleteDuplicateEdges", inv[p].clusterName,
                                                  FALSE)},
                        !.allOk = @ /\ ~failed]]
    /\ UNCHANGED <<storeNodes, reliable, norm, conn, served>>

RECURSIVE DiffEdgesFrom_KeepsMatched(_, _, _, _, _)
\* A loop that leaves a matched key among the existing edges.
DiffEdgesFrom_KeepsMatched(edges, i, existing, verify, toAdd) ==
    IF i > Len(edges)
    THEN [existingEdges |-> existing, verifyEdges |-> verify, edgesToAdd |-> toAdd]
    ELSE LET e == edges[i]
             key == getEdgeUID(e.SourceUID, e.EdgeType, e.DestUID)
         IN  IF key \in DOMAIN existing
             THEN DiffEdgesFrom_KeepsMatched(edges, i + 1, existing, verify \cup {key}, toAdd)
             ELSE DiffEdgesFrom_KeepsMatched(edges, i + 1, existing, verify \cup {key},
                                             Append(toAdd, e))

RECURSIVE DiffEdgesFrom(_, _, _, _, _)
\* The loop over the incoming edges.
DiffEdgesFrom(edges, i, existing, verify, toAdd) ==
    IF i > Len(edges)
    THEN [existingEdges |-> existing, verifyEdges |-> verify, edgesToAdd |-> toAdd]
    ELSE LET e == edges[i]
             key == getEdgeUID(e.SourceUID, e.EdgeType, e.DestUID)
         IN  IF key \in DOMAIN existing
             THEN DiffEdgesFrom(edges, i + 1, MapDelete(existing, key),
                                verify \cup {key}, toAdd)
             ELSE DiffEdgesFrom(edges, i + 1, existing, verify \cup {key},
                                Append(toAdd, e))

\* The edges left in existingEdges, in the order the map yields them.
EdgesToDelete(existingEdges) ==
    {[i \in DOMAIN order |-> existingEdges[order[i]]] :
        order \in Orderings(DOMAIN existingEdges)}

\* A diff that takes the length of existingEdges after the loop has removed
\* the matched keys from it.
DiffEdges_LengthAfterLoop(p) ==
    /\ inv[p].pc = "diffEdges"
    /\ LET d == DiffEdgesFrom(inv[p].edges, 1, inv[p].existingEdges, {}, <<>>)
           existingEdgesMapLength == Cardinality(DOMAIN d.existingEdges)
       IN  \E edgesToDelete \in EdgesToDelete(d.existingEdges) :
              LET expectedEdgesAfterProcessing ==
                      existingEdgesMapLength + Len(d.edgesToAdd) - Len(edgesToDelete)
              IN  inv' = [inv EXCEPT ![p] = [@ EXCEPT
                            !.pc = "insertEdges", !.trace = Append(@, "diffEdges"),
                            !.existingEdgesMapLength = existingEdgesMapLength,
                            !.existingEdges = d.existingEdges,
                            !.verifyEdges = d.verifyEdges,
                            !.edgesToAdd = d.edgesToAdd,
                            !.edgesToDelete = edgesToDelete,
                            !.warnings = @
                                \cup (IF Cardinality(d.verifyEdges) # Len(inv[p].edges)
                                      THEN {"duplicateEdgesInPayload"} ELSE {})
                                \cup (IF expectedEdgesAfterProcessing # Len(inv[p].edges)
                                      THEN {"expectedEdgesMismatch"} ELSE {})]]
    /\ UNCHANGED <<storeNodes, storeEdges, reliable, norm, conn, served>>

\* The edge diff: the length of the baseline, the loop over the incoming
\* edges, the edges to delete and the two soft checks, which only log.
DiffEdges(p) ==
    /\ inv[p].pc = "diffEdges"
    /\ LET existingEdgesMapLength == Cardinality(DOMAIN inv[p].existingEdges)
           d == DiffEdgesFrom(inv[p].edges, 1, inv[p].existingEdges, {}, <<>>)
       IN  \E edgesToDelete \in EdgesToDelete(d.existingEdges) :
              LET expectedEdgesAfterProcessing ==
                      existingEdgesMapLength + Len(d.edgesToAdd) - Len(edgesToDelete)
              IN  inv' = [inv EXCEPT ![p] = [@ EXCEPT
                            !.pc = "insertEdges", !.trace = Append(@, "diffEdges"),
                            !.existingEdgesMapLength = existingEdgesMapLength,
                            !.existingEdges = d.existingEdges,
                            !.verifyEdges = d.verifyEdges,
                            !.edgesToAdd = d.edgesToAdd,
                            !.edgesToDelete = edgesToDelete,
                            !.warnings = @
                                \cup (IF Cardinality(d.verifyEdges) # Len(inv[p].edges)
                                      THEN {"duplicateEdgesInPayload"} ELSE {})
                                \cup (IF expectedEdgesAfterProcessing # Len(inv[p].edges)
                                      THEN {"expectedEdgesMismatch"} ELSE {})]]
    /\ UNCHANGED <<storeNodes, storeEdges, reliable, norm, conn, served>>

WithinEdgeCopies(edges) ==
    \A e \in DOMAIN edges : EdgeCopies(edges, e.cluster, EdgeKey(e)) <= MaxCopies

InsertEdges(p) ==
    /\ inv[p].pc = "insertEdges"
    /\ \E o \in Outcomes(inv[p].edgesToAdd, {}) :
          LET insertEdgeResponse == Response(o, KeyList(inv[p].edgesToAdd))
              after == AfterBatch(insertEdgeResponse, inv[p].stats.AddEdgeErrors, inv[p].err,
                                  "insertEdges")
          IN  /\ storeEdges' = CreateEdges(storeEdges, inv[p].edgesToAdd, Succeeded(o),
                                           inv[p].clusterName)
              /\ WithinEdgeCopies(storeEdges')
              /\ inv' = [inv EXCEPT ![p] = [@ EXCEPT
                           !.pc = "deleteEdges",
                           !.trace = Append(@, "insertEdges"),
                           !.insertEdgeResponse = insertEdgeResponse,
                           !.stats = [@ EXCEPT !.TotalEdgesAdded = after.count,
                                               !.AddEdgeErrors = after.errors],
                           !.err = after.err,
                           !.failures = IF insertEdgeResponse.ConnectionError
                                        THEN Append(@, "insertEdges") ELSE @,
                           !.allOk = @ /\ Flawless(insertEdgeResponse)]]
    /\ UNCHANGED <<storeNodes, reliable, norm, conn, served>>

DeleteEdges(p) ==
    /\ inv[p].pc = "deleteEdges"
    /\ \E o \in Outcomes(inv[p].edgesToDelete, {}) :
          LET deleteEdgeResponse == Response(o, KeyList(inv[p].edgesToDelete))
              after == AfterBatch(deleteEdgeResponse, inv[p].stats.DeleteEdgeErrors,
                                  inv[p].err, "deleteEdges")
          IN  /\ storeEdges' = RemoveEdges(storeEdges, inv[p].edgesToDelete, Succeeded(o),
                                           inv[p].clusterName)
              /\ inv' = [inv EXCEPT ![p] = [@ EXCEPT
                           !.pc = "return",
                           !.trace = Append(@, "deleteEdges"),
                           !.deleteEdgeResponse = deleteEdgeResponse,
                           !.stats = [@ EXCEPT !.TotalEdgesDeleted = after.count,
                                               !.DeleteEdgeErrors = after.errors],
                           !.err = after.err,
                           !.failures = IF deleteEdgeResponse.ConnectionError
                                        THEN Append(@, "deleteEdges") ELSE @,
                           !.allOk = @ /\ Flawless(deleteEdgeResponse)]]
    /\ UNCHANGED <<storeNodes, reliable, norm, conn, served>>

\* return stats, err
Return(p) ==
    /\ inv[p].pc = "return"
    /\ inv' = [inv EXCEPT ![p] = [@ EXCEPT
                  !.pc = "done", !.trace = Append(@, "return"),
                  !.metrics = MapPut(@, "EdgeSyncEnd", Len(inv[p].trace))]]
    /\ UNCHANGED <<storeNodes, storeEdges, reliable, norm, conn, served>>

---------------------------------------------------------------------------
(* The specification: one caller resyncs one cluster, again and again,     *)
(* starting from any store within the bounds.  Against a store that can    *)
(* fail, the edges are drawn from a smaller universe.                      *)

Payloads ==
    {[resources |-> rs, edges |-> es] :
        rs \in SeqsUpTo(Resources, MaxRes), es \in SeqsUpTo(Edges, MaxEdges)}

FewEdges == {Edge("uid-a", "owns", "uid-b")}

PayloadsUnreliable ==
    {[resources |-> rs, edges |-> es] :
        rs \in SeqsUpTo(Resources, MaxRes), es \in {<<>>} \cup {<<e>> : e \in FewEdges}}

NodeStores ==
    LET universe == {Node(r.UID, ClusterName, r.Properties) : r \in Resources}
        counts == {c \in [universe -> 0..MaxCopies] :
                     \A n \in universe :
                        BagSize([m \in {k \in universe : k.uid = n.uid /\ c[k] > 0}
                                    |-> c[m]]) <= MaxCopies}
    IN  {[n \in {m \in universe : c[m] > 0} |-> c[n]] : c \in counts}

EdgeStores(edges) ==
    LET universe == {StoredEdge(e, ClusterName) : e \in edges}
    IN  {[e \in {m \in universe : c[m] > 0} |-> c[e]] : c \in [universe -> 0..MaxCopies]}

Init ==
    /\ reliable \in BOOLEAN
    /\ storeNodes \in NodeStores
    /\ storeEdges \in EdgeStores(IF reliable THEN Edges ELSE FewEdges)
    /\ inv = [p \in {1} |-> Idle(ClusterName)]
    /\ norm = NoCall /\ conn = Connected /\ served = <<>>

Call1(p) == Call(p, IF reliable THEN Payloads ELSE PayloadsUnreliable)

Next ==
    \/ \E p \in DOMAIN inv : Call1(p)
    \/ \E p \in DOMAIN inv : CallAgain(p)
    \/ \E p \in DOMAIN inv : QueryResources(p)
    \/ \E p \in DOMAIN inv : DeleteDuplicates(p)
    \/ \E p \in DOMAIN inv : DiffResources(p)
    \/ \E p \in DOMAIN inv : InsertResources(p)
    \/ \E p \in DOMAIN inv : UpdateResources(p)
    \/ \E p \in DOMAIN inv : DeleteResources(p)
    \/ \E p \in DOMAIN inv : QueryEdges(p)
    \/ \E p \in DOMAIN inv : DedupeEdges(p)
    \/ \E p \in DOMAIN inv : DiffEdges(p)
    \/ \E p \in DOMAIN inv : InsertEdges(p)
    \/ \E p \in DOMAIN inv : DeleteEdges(p)
    \/ \E p \in DOMAIN inv : Return(p)

Spec == Init /\ [][Next]_vars

---------------------------------------------------------------------------
(* The property differ alone: one UID, a store that does not fail, and     *)
(* properties of every kind the differ tells apart.                        *)

MaxDuplicates == 3     \* most records of the one UID in the initial store

Statuses == {VStr("Ready"), VStr("NotReady"), VInt64(42), VStr("42"), VBool(TRUE), VBool(FALSE)}

Ports == {VSlice(<<"80">>), VSlice(<<"80", "443">>), VStr("80")}

PropertySets ==
    {[status |-> st] : st \in Statuses}
        \cup {[status |-> VStr("Ready"), ports |-> pt] : pt \in Ports}

PayloadsDiff ==
    {[resources |-> rs, edges |-> <<>>] :
        rs \in {<<>>} \cup {<<Resource("uid-a", ps, ok)>> : ps \in PropertySets, ok \in BOOLEAN}}

NodeStoresDiff ==
    {[n \in {} |-> 0]}
        \cup {[n \in {Node("uid-a", ClusterName, ps)} |-> k] :
                ps \in PropertySets, k \in 1..MaxDuplicates}

InitDiff ==
    /\ reliable = TRUE
    /\ storeNodes \in NodeStoresDiff
    /\ storeEdges \in EdgeStores(FewEdges)
    /\ inv = [p \in {1} |-> Idle(ClusterName)]
    /\ norm = NoCall /\ conn = Connected /\ served = <<>>

CallDiff(p) == Call(p, PayloadsDiff)

NextDiff ==
    \/ \E p \in DOMAIN inv : CallDiff(p)
    \/ \E p \in DOMAIN inv : CallAgain(p)
    \/ \E p \in DOMAIN inv : QueryResources(p)
    \/ \E p \in DOMAIN inv : DeleteDuplicates(p)
    \/ \E p \in DOMAIN inv : DiffResources(p)
    \/ \E p \in DOMAIN inv : InsertResources(p)
    \/ \E p \in DOMAIN inv : UpdateResources(p)
    \/ \E p \in DOMAIN inv : DeleteResources(p)
    \/ \E p \in DOMAIN inv : QueryEdges(p)
    \/ \E p \in DOMAIN inv : DedupeEdges(p)
    \/ \E p \in DOMAIN inv : DiffEdges(p)
    \/ \E p \in DOMAIN inv : InsertEdges(p)
    \/ \E p \in DOMAIN inv : DeleteEdges(p)
    \/ \E p \in DOMAIN inv : Return(p)

SpecDiff == InitDiff /\ [][NextDiff]_vars

---------------------------------------------------------------------------
(* The specification for the normalizer: either one direct call of         *)
(* valueToString with a value of any type, or the property diffs above,    *)
(* which call it on the values of the payload and of the store.            *)

IntSamples == {0 - 2026, 0 - 120, 0 - 42, 0 - 7, 0 - 1, 0, 1, 7, 9, 10, 42, 99, 100, 2026}

Values ==
    {VInt64(n) : n \in IntSamples} \cup {VInt(n) : n \in IntSamples}
        \cup {VStr(x) : x \in {"", "42", "Ready", "0 - 7", "4 2"}}
        \cup {VSlice(l) : l \in {<<>>, <<"80">>, <<"42">>}}
        \cup {VBool(b) : b \in BOOLEAN} \cup {VNil}

InitNorm ==
    \/ /\ norm \in {CallValueToString(value) : value \in Values}
       /\ reliable = TRUE /\ storeNodes = EmptyMap /\ storeEdges = EmptyMap
       /\ inv = [p \in {1} |-> Idle(ClusterName)]
       /\ conn = Connected /\ served = <<>>
    \/ InitDiff

\* A resync is called by a caller that is not calling valueToString itself.
CallNorm(p) == ~norm.direct /\ Call(p, PayloadsDiff)

NextNorm ==
    \/ Normalize
    \/ \E p \in DOMAIN inv : CallNorm(p)
    \/ \E p \in DOMAIN inv : CallAgain(p)
    \/ \E p \in DOMAIN inv : QueryResources(p)
    \/ \E p \in DOMAIN inv : DeleteDuplicates(p)
    \/ \E p \in DOMAIN inv : DiffResources(p)
    \/ \E p \in DOMAIN inv : InsertResources(p)
    \/ \E p \in DOMAIN inv : UpdateResources(p)
    \/ \E p \in DOMAIN inv : DeleteResources(p)
    \/ \E p \in DOMAIN inv : QueryEdges(p)
    \/ \E p \in DOMAIN inv : DedupeEdges(p)
    \/ \E p \in DOMAIN inv : DiffEdges(p)
    \/ \E p \in DOMAIN inv : InsertEdges(p)
    \/ \E p \in DOMAIN inv : DeleteEdges(p)
    \/ \E p \in DOMAIN inv : Return(p)

SpecNorm == InitNorm /\ [][NextNorm]_vars

---------------------------------------------------------------------------
(* The health probes (handlers.LivenessProbe, handlers.ReadinessProbe).    *)
(* Each request gets a fresh http.ResponseWriter; served keeps what the    *)
(* handler wrote to it, with what the connection check reported then.      *)

MaxRequests == 3     \* most requests the probes answer in one behaviour

\* What dbconnector.CheckDataConnection() can report: (connAlive, connError).
ConnStates == {[alive |-> a, err |-> e] : a \in BOOLEAN, e \in BOOLEAN}

\* A ResponseWriter nothing was written to: no status line yet, empty body.
NewResponseWriter == [status |-> 0, body |-> ""]

\* fmt.Fprint(w, text): the first write sends the status 200 when none was sent.
Fprint(w, text) == [status |-> IF w.status = 0 THEN 200 ELSE w.status, body |-> w.body \o text]

\* http.Error(w, error, code): the status code, then the message and a newline.
HttpError(w, error, code) ==
    IF w.status = 0 THEN [status |-> code, body |-> w.body \o error \o "\n"]
    ELSE [w EXCEPT !.body = @ \o error \o "\n"]

Served(probe, w) == [probe |-> probe, conn |-> conn, status |-> w.status, body |-> w.body]

\* The store becomes unreachable, or reachable again.
ConnectionChanges ==
    /\ \E c \in ConnStates \ {conn} : conn' = c
    /\ UNCHANGED <<storeNodes, storeEdges, inv, reliable, norm, served>>

LivenessProbe ==
    /\ Len(served) < MaxRequests
    /\ served' = Append(served, Served("liveness", Fprint(NewResponseWriter, "OK")))
    /\ UNCHANGED <<storeNodes, storeEdges, inv, reliable, norm, conn>>

\* A readiness probe that looks at the error alone.
ReadinessProbe_ErrorOnly ==
    /\ Len(served) < MaxRequests
    /\ LET connError == conn.err
           w == IF connError
                THEN HttpError(NewResponseWriter, "Unable to reach Redis.", 503)
                ELSE Fprint(NewResponseWriter, "OK")
       IN  served' = Append(served, Served("readiness", w))
    /\ UNCHANGED <<storeNodes, storeEdges, inv, reliable, norm, conn>>

ReadinessProbe ==
    /\ Len(served) < MaxRequests
    /\ LET connAlive == conn.alive
           connError == conn.err
           w == IF connError \/ ~connAlive
                THEN HttpError(NewResponseWriter, "Unable to reach Redis.", 503)
                ELSE Fprint(NewResponseWriter, "OK")
       IN  served' = Append(served, Served("readiness", w))
    /\ UNCHANGED <<storeNodes, storeEdges, inv, reliable, norm, conn>>

InitProbes ==
    /\ conn \in ConnStates /\ served = <<>>
    /\ reliable = TRUE /\ storeNodes = EmptyMap /\ storeEdges = EmptyMap
    /\ inv = [p \in {1} |-> Idle(ClusterName)] /\ norm = NoCall

NextProbes == ConnectionChanges \/ LivenessProbe \/ ReadinessProbe

SpecProbes == InitProbes /\ [][NextProbes]_vars

---------------------------------------------------------------------------
(* Two clusters reconciled at once.  The caller runs one invocation per    *)
(* cluster; each works on its own locals and they meet at the store only.  *)
(* UIDs are unique across clusters: each cluster has one UID of its own    *)
(* and one intra-cluster edge.  The store does not fail.  A step of the    *)
(* model is one stage of one invocation, so the invocations interleave at  *)
(* the store calls.                                                        *)

Clusters == <<"c1", "c2">>

\* The UID of the one resource each cluster reports.
ClusterUID(cluster) == IF cluster = "c1" THEN "uid-a" ELSE "uid-b"

ClusterEdge(cluster) == Edge(ClusterUID(cluster), "owns", ClusterUID(cluster))

\* What a cluster can send: its resource or nothing, its edge or nothing.
PayloadsOf(cluster) ==
    {[resources |-> rs, edges |-> es] :
        rs \in {<<>>, <<Resource(ClusterUID(cluster), NotReady, TRUE)>>},
        es \in {<<>>, <<ClusterEdge(cluster)>>}}

\* Up to MaxCopies records of each cluster's node and of each cluster's edge.
NodeStoresConc ==
    LET universe == {Node(ClusterUID(Clusters[p]), Clusters[p], Ready) : p \in DOMAIN Clusters}
    IN  {[n \in {m \in universe : c[m] > 0} |-> c[n]] : c \in [universe -> 0..MaxCopies]}

EdgeStoresConc ==
    LET universe == {StoredEdge(ClusterEdge(Clusters[p]), Clusters[p]) : p \in DOMAIN Clusters}
    IN  {[e \in {m \in universe : c[m] > 0} |-> c[e]] : c \in [universe -> 0..MaxCopies]}

InitConc ==
    /\ reliable = TRUE
    /\ storeNodes \in NodeStoresConc
    /\ storeEdges \in EdgeStoresConc
    /\ inv = [p \in DOMAIN Clusters |-> Idle(Clusters[p])]
    /\ norm = NoCall /\ conn = Connected /\ served = <<>>

CallConc(p) == Call(p, PayloadsOf(inv[p].clusterName))

NextConc ==
    \/ \E p \in DOMAIN inv : CallConc(p)
    \/ \E p \in DOMAIN inv : QueryResources(p)
    \/ \E p \in DOMAIN inv : DeleteDuplicates(p)
    \/ \E p \in DOMAIN inv : DiffResources(p)
    \/ \E p \in DOMAIN inv : InsertResources(p)
    \/ \E p \in DOMAIN inv : UpdateResources(p)
    \/ \E p \in DOMAIN inv : DeleteResources(p)
    \/ \E p \in DOMAIN inv : QueryEdges(p)
    \/ \E p \in DOMAIN inv : DedupeEdges(p)
    \/ \E p \in DOMAIN inv : DiffEdges(p)
    \/ \E p \in DOMAIN inv : InsertEdges(p)
    \/ \E p \in DOMAIN inv : DeleteEdges(p)
    \/ \E p \in DOMAIN inv : Return(p)

SpecConc == InitConc /\ [][NextConc]_vars

---------------------------------------------------------------------------
(* What the properties below speak about. *)

\* The stages an invocation has been through.
Ran(p, stage) == \E i \in DOMAIN inv[p].trace : inv[p].trace[i] = stage

UIDsOf(resources) == {resources[i].UID : i \in DOMAIN resources}

KeysOf(edges) == {EdgeKey(edges[i]) : i \in DOMAIN edges}

NoRepeats(f) == \A i, j \in DOMAIN f : f[i] = f[j] => i = j

UniquePayload(p) == NoRepeats(UIDList(inv[p].resources)) /\ NoRepeats(KeyList(inv[p].edges))

ClusterNodeCopies(cluster, uid) ==
    BagSize(BagRemoveAll(storeNodes,
                         {n \in DOMAIN storeNodes : n.cluster # cluster \/ n.uid # uid}))

StoredUIDs(cluster) == {n.uid : n \in DOMAIN ClusterNodes(storeNodes, cluster)}

StoredKeys(cluster) == {EdgeKey(e) : e \in DOMAIN ClusterEdges(storeEdges, cluster)}

\* The store holds, for the cluster, one node per incoming UID and one edge
\* per incoming edge key, and nothing else.
StoreMatchesPayload(p) ==
    LET c == inv[p].clusterName
    IN  /\ StoredUIDs(c) = UIDsOf(inv[p].resources)
        /\ \A u \in StoredUIDs(c) : ClusterNodeCopies(c, u) = 1
        /\ StoredKeys(c) = KeysOf(inv[p].edges)
        /\ \A k \in StoredKeys(c) : EdgeCopies(storeEdges, c, k) = 1

---------------------------------------------------------------------------
(* C1.  Convergence.  When an invocation returns, every store query and    *)
(* every item of every chunked mutation having succeeded, and the payload  *)
(* holds no UID and no edge key twice, then whatever the store held for    *)
(* the cluster at entry (duplicate nodes and duplicate edges included) it  *)
(* now holds exactly one node per incoming UID and no other node, and      *)
(* exactly one intra-cluster edge per incoming edge key and no other.      *)
C1_Convergence ==
    \A p \in DOMAIN inv :
        (inv[p].pc = "done" /\ inv[p].allOk /\ UniquePayload(p)) => StoreMatchesPayload(p)

\* A cycle that purged a duplicated UID and collapsed a duplicated edge, and
\* added, updated and deleted on its way to the matching store.
C1_Witness ==
    \E p \in DOMAIN inv :
        /\ inv[p].pc = "done" /\ inv[p].allOk /\ UniquePayload(p)
        /\ DOMAIN inv[p].duplicatedResources # {}
        /\ inv[p].dupCount > 0
        /\ inv[p].stats.TotalAdded > 0
        /\ inv[p].stats.TotalEdgesDeleted > 0
        /\ Len(inv[p].resources) = 2 /\ Len(inv[p].edges) = 1

(* C2.  Idempotence.  In a cycle that repeats the cycle before it (same    *)
(* resources, same edges), every store operation of both having succeeded  *)
(* and the store holding no duplicates when either started, the diffs      *)
(* come out empty (nothing to add, to update or to delete, for resources   *)
(* and for edges) and the five counts returned are 0.                      *)
C2_Idempotence ==
    \A p \in DOMAIN inv :
        (inv[p].rerun /\ inv[p].cleanStart /\ inv[p].allOk) =>
            /\ Ran(p, "diffResources") =>
                  inv[p].resourcesToAdd = <<>> /\ inv[p].resourcesToUpdate = <<>>
            /\ Ran(p, "deleteResources") => inv[p].deleteUIDS = <<>>
            /\ Ran(p, "diffEdges") => inv[p].edgesToAdd = <<>> /\ inv[p].edgesToDelete = <<>>
            /\ inv[p].pc = "done" =>
                  /\ inv[p].stats.TotalAdded = 0 /\ inv[p].stats.TotalUpdated = 0
                  /\ inv[p].stats.TotalDeleted = 0 /\ inv[p].stats.TotalEdgesAdded = 0
                  /\ inv[p].stats.TotalEdgesDeleted = 0

\* The second of two such cycles, with two resources and an edge, returns.
C2_Witness ==
    \E p \in DOMAIN inv :
        /\ inv[p].rerun /\ inv[p].cleanStart /\ inv[p].allOk /\ inv[p].pc = "done"
        /\ Len(inv[p].resources) = 2 /\ Len(inv[p].edges) >= 1

(* C3.  Exactly-once classification.  After the diffs, whatever the        *)
(* payload (a UID or an edge key may occur in it more than once), every    *)
(* UID of the deduplicated baseline or of the payload is in exactly one    *)
(* of: added, updated or left alone, deleted -- and is in resourcesToAdd,  *)
(* resourcesToUpdate and the delete list at most once altogether; every    *)
(* edge key is added at most once, and not added when it was in the        *)
(* baseline.                                                               *)
C3_ExactlyOnce ==
    \A p \in DOMAIN inv :
        /\ Ran(p, "diffResources") =>
              \A u \in DOMAIN inv[p].baseline \cup UIDsOf(inv[p].resources) :
                 /\ Occurrences(UIDList(inv[p].resourcesToAdd), u)
                      + Occurrences(UIDList(inv[p].resourcesToUpdate), u)
                      + (IF u \in DOMAIN inv[p].existingResources THEN 1 ELSE 0) <= 1
                 /\ u \in UIDsOf(inv[p].resourcesToAdd) <=>
                       (u \in UIDsOf(inv[p].resources) /\ u \notin DOMAIN inv[p].baseline)
                 /\ u \in DOMAIN inv[p].existingResources <=>
                       (u \in DOMAIN inv[p].baseline /\ u \notin UIDsOf(inv[p].resources))
        /\ Ran(p, "diffEdges") =>
              \A k \in DOMAIN inv[p].edgeBaseline \cup KeysOf(inv[p].edges) :
                 /\ Occurrences(KeyList(inv[p].edgesToAdd), k) <= 1
                 /\ k \in KeysOf(inv[p].edgesToAdd) => k \notin DOMAIN inv[p].edgeBaseline
                 /\ k \in KeysOf(inv[p].edgesToDelete) <=>
                       (k \in DOMAIN inv[p].edgeBaseline /\ k \notin KeysOf(inv[p].edges))

(* C4.  Resource delete set.  The list handed to ChunkedDelete holds,      *)
(* each exactly once, the UIDs of the deduplicated baseline that do not    *)
(* occur among the incoming resources, and no other UID; a UID of an       *)
(* incoming resource is never in it.                                       *)
C4_DeleteSet ==
    \A p \in DOMAIN inv :
        Ran(p, "deleteResources") =>
            /\ Range(inv[p].deleteUIDS) = DOMAIN inv[p].baseline \ UIDsOf(inv[p].resources)
            /\ NoRepeats(inv[p].deleteUIDS)
            /\ Range(inv[p].deleteUIDS) \cap UIDsOf(inv[p].resources) = {}

\* A cycle that matched one UID of its baseline and deleted another.
C4_Witness ==
    \E p \in DOMAIN inv :
        /\ Ran(p, "deleteResources")
        /\ inv[p].deleteUIDS # <<>>
        /\ UIDsOf(inv[p].resources) \cap DOMAIN inv[p].baseline # {}

(* C5.  Duplicate remediation.  Once the resolver is through: for every    *)
(* UID the cluster query returned two or more times, a deletion of all     *)
(* the records of that UID was issued (and, when it did not fail, the      *)
(* store holds none) and the UID is not in existingResources when the      *)
(* resource diff starts; a UID returned exactly once is in                 *)
(* existingResources then, and no deletion was issued for it.              *)
C5_DuplicateRemediation ==
    \A p \in DOMAIN inv :
        Ran(p, "deleteDuplicates") =>
            \A u \in {inv[p].result[i].uid : i \in DOMAIN inv[p].result} :
                LET times == Cardinality({i \in DOMAIN inv[p].result : inv[p].result[i].uid = u})
                IN  /\ times >= 2 =>
                          /\ Query("deleteByUID", u, TRUE) \in inv[p].queries
                          /\ u \notin DOMAIN inv[p].baseline
                          /\ (inv[p].pc = "diffResources" /\ inv[p].allOk)
                                => NodeCopies(storeNodes, u) = 0
                    /\ times = 1 =>
                          /\ u \in DOMAIN inv[p].baseline
                          /\ inv[p].baseline[u].uid = u
                          /\ \A q \in inv[p].queries : q.kind = "deleteByUID" => q.arg # u

\* The resolver went through a result that holds one UID as often as the
\* store can hold it and another UID once.
C5_Witness ==
    \E p \in DOMAIN inv :
        /\ inv[p].pc = "diffResources"
        /\ \E u \in UIDs :
              Cardinality({i \in DOMAIN inv[p].result : inv[p].result[i].uid = u}) = MaxCopies
        /\ DOMAIN inv[p].baseline # {}

(* C6.  Re-add after duplicate purge.  A UID the cluster query returned    *)
(* more than once and that is among the incoming resources is in           *)
(* resourcesToAdd and not in resourcesToUpdate, and after a cycle whose    *)
(* store operations all succeeded the store holds exactly one record of    *)
(* it; a duplicated UID that is not among the incoming resources is not    *)
(* in the list handed to ChunkedDelete, and TotalDeleted counts only       *)
(* items of that list.                                                     *)
C6_ReAddAfterPurge ==
    \A p \in DOMAIN inv :
        \A u \in DOMAIN inv[p].duplicatedResources :
            /\ (Ran(p, "diffResources") /\ u \in UIDsOf(inv[p].resources)) =>
                  /\ u \in UIDsOf(inv[p].resourcesToAdd)
                  /\ u \notin UIDsOf(inv[p].resourcesToUpdate)
            /\ (inv[p].pc = "done" /\ inv[p].allOk /\ u \in UIDsOf(inv[p].resources)) =>
                  ClusterNodeCopies(inv[p].clusterName, u) = 1
            /\ (Ran(p, "deleteResources") /\ u \notin UIDsOf(inv[p].resources)) =>
                  /\ u \notin Range(inv[p].deleteUIDS)
                  /\ inv[p].stats.TotalDeleted <= Len(inv[p].deleteUIDS)

\* Two values are different: a sequence by deep equality, anything else by
\* its normalized string.
Different(value, existingValue) ==
    IF value.t = "slice" \/ existingValue.t = "slice"
    THEN ~DeepEqual(value, existingValue)
    ELSE valueToString(value) # valueToString(existingValue)

(* C7.  Property diff.  An incoming resource whose UID is in the baseline  *)
(* and whose properties encode is in resourcesToUpdate if and only if one  *)
(* of its properties has a value different from the stored record's value  *)
(* (scalars by their normalized strings, sequences by deep equality), and  *)
(* it is never in resourcesToAdd: with identical properties it is in       *)
(* neither list.                                                           *)
C7_PropertyDiff ==
    \A p \in DOMAIN inv :
        Ran(p, "diffResources") =>
            \A i \in DOMAIN inv[p].resources :
                LET newResource == inv[p].resources[i]
                IN  (newResource.UID \in DOMAIN inv[p].baseline /\ newResource.encodes) =>
                        /\ newResource.UID \notin UIDsOf(inv[p].resourcesToAdd)
                        /\ newResource.UID \in UIDsOf(inv[p].resourcesToUpdate) <=>
                              \E key \in DOMAIN newResource.Properties :
                                  Different(newResource.Properties[key],
                                            Lookup(inv[p].baseline[newResource.UID].props, key))

\* The incoming edges whose key is not in the baseline, in payload order.
EdgesNotIn(edges, existingEdges) ==
    SelectSeq(edges, LAMBDA e : EdgeKey(e) \notin DOMAIN existingEdges)

(* C8.  Edge diff.  When the edge query succeeded, the baseline the diff   *)
(* starts from holds, under its key, every intra-cluster edge the store    *)
(* has for the cluster; and for an incoming edge list that holds no key    *)
(* twice, edgesToAdd is exactly the incoming edges whose key is not in     *)
(* that baseline and edgesToDelete is exactly, each once, the baseline     *)
(* edges whose key is not among the incoming ones.  There is no third      *)
(* list: an edge is added, deleted or left alone.                          *)
C8_EdgeDiff ==
    \A p \in DOMAIN inv :
        /\ (inv[p].pc = "dedupeEdges" /\ inv[p].err # "edgeQuery") =>
              /\ DOMAIN inv[p].existingEdges = StoredKeys(inv[p].clusterName)
              /\ \A k \in DOMAIN inv[p].existingEdges : EdgeKey(inv[p].existingEdges[k]) = k
        /\ (Ran(p, "diffEdges") /\ NoRepeats(KeyList(inv[p].edges))) =>
              /\ inv[p].edgesToAdd = EdgesNotIn(inv[p].edges, inv[p].edgeBaseline)
              /\ Range(inv[p].edgesToDelete) =
                    {inv[p].edgeBaseline[k] :
                        k \in DOMAIN inv[p].edgeBaseline \ KeysOf(inv[p].edges)}
              /\ NoRepeats(inv[p].edgesToDelete)

\* The two examples: one existing edge and a second one incoming; two
\* existing edges and only the first incoming.
C8_Witness ==
    LET ab == Edge("uid-a", "owns", "uid-b")
        ba == Edge("uid-b", "owns", "uid-a")
    IN  \E p \in DOMAIN inv :
            /\ Ran(p, "diffEdges") /\ inv[p].err = "nil"
            /\ \/ /\ DOMAIN inv[p].edgeBaseline = {EdgeKey(ab)}
                  /\ inv[p].edges = <<ab, ba>>
                  /\ inv[p].edgesToAdd = <<ba>> /\ inv[p].edgesToDelete = <<>>
               \/ /\ DOMAIN inv[p].edgeBaseline = {EdgeKey(ab), EdgeKey(ba)}
                  /\ inv[p].edges = <<ab>>
                  /\ inv[p].edgesToAdd = <<>> /\ inv[p].edgesToDelete = <<ba>>

(* C9.  Payload duplicates.  When the incoming edge list holds a key more  *)
(* than once, the duplicate-payload warning is raised, and every key of    *)
(* the list is in edgesToAdd at most once, and not at all when it was in   *)
(* the baseline.                                                           *)
C9_PayloadDuplicates ==
    \A p \in DOMAIN inv :
        (Ran(p, "diffEdges") /\ ~NoRepeats(KeyList(inv[p].edges))) =>
            /\ "duplicateEdgesInPayload" \in inv[p].warnings
            /\ \A k \in KeysOf(inv[p].edges) :
                  /\ Occurrences(KeyList(inv[p].edgesToAdd), k) <= 1
                  /\ k \in DOMAIN inv[p].edgeBaseline => k \notin KeysOf(inv[p].edgesToAdd)

\* What a stage leaves behind, given the executor's answer to it.
StageReported(p, stage, response, count, errors) ==
    Ran(p, stage) =>
        /\ count = response.SuccessfulResources
        /\ (~response.ConnectionError /\ response.ResourceErrors # {}) =>
              /\ Len(errors) = Cardinality(response.ResourceErrors)
              /\ Range(errors) = response.ResourceErrors
        /\ ~response.ConnectionError => inv[p].err # stage

Stages ==
    <<"queryResources", "deleteDuplicates", "diffResources", "insertResources",
      "updateResources", "deleteResources", "queryEdges", "dedupeEdges", "diffEdges",
      "insertEdges", "deleteEdges", "return">>

(* C10.  Partial failure propagation.  For each of the five mutation       *)
(* stages, the count in the response is the number of successes the        *)
(* executor reported for the stage; when the executor reported item        *)
(* errors and no connection error, the stage's error list has one entry    *)
(* per item error and the stage did not set the returned error; and an     *)
(* invocation that returns has been through every stage, in order,         *)
(* whatever the executor reported.                                         *)
C10_PartialFailure ==
    \A p \in DOMAIN inv :
        /\ StageReported(p, "insertResources", inv[p].insertResponse,
                         inv[p].stats.TotalAdded, inv[p].stats.AddErrors)
        /\ StageReported(p, "updateResources", inv[p].updateResponse,
                         inv[p].stats.TotalUpdated, inv[p].stats.UpdateErrors)
        /\ StageReported(p, "deleteResources", inv[p].deleteResponse,
                         inv[p].stats.TotalDeleted, inv[p].stats.DeleteErrors)
        /\ StageReported(p, "insertEdges", inv[p].insertEdgeResponse,
                         inv[p].stats.TotalEdgesAdded, inv[p].stats.AddEdgeErrors)
        /\ StageReported(p, "deleteEdges", inv[p].deleteEdgeResponse,
                         inv[p].stats.TotalEdgesDeleted, inv[p].stats.DeleteEdgeErrors)
        /\ inv[p].pc = "done" => inv[p].trace = Stages

\* An insert of two resources of which one succeeded and one was refused,
\* without a connection error, in an invocation that went on to return.
C10_Witness ==
    \E p \in DOMAIN inv :
        /\ inv[p].pc = "done"
        /\ Len(inv[p].resourcesToAdd) = 2
        /\ inv[p].insertResponse.SuccessfulResources = 1
        /\ Cardinality(inv[p].insertResponse.ResourceErrors) = 1
        /\ ~inv[p].insertResponse.ConnectionError
        /\ inv[p].stats.TotalAdded = 1 /\ Len(inv[p].stats.AddErrors) = 1
        /\ inv[p].err = "nil"

\* The base-10 decimal string of each sampled integer, written out.
Decimal ==
    [n \in IntSamples |->
        CASE n = 0 - 2026 -> "-2026" [] n = 0 - 120 -> "-120" [] n = 0 - 42 -> "-42"
          [] n = 0 - 7 -> "-7" [] n = 0 - 1 -> "-1" [] n = 0 -> "0" [] n = 1 -> "1"
          [] n = 7 -> "7" [] n = 9 -> "9" [] n = 10 -> "10" [] n = 42 -> "42"
          [] n = 99 -> "99" [] n = 100 -> "100" [] n = 2026 -> "2026"]

(* C11.  Value normalization.  A call of valueToString returns, for an     *)
(* int64 or an int, the base-10 decimal string of the number; for a        *)
(* string, the string itself (so int64(42) and "42" give the same          *)
(* string); for a value of any other type, the empty string.  And the      *)
(* resource differ hands no property to valueToString when both the        *)
(* incoming encoded value and the stored value are sequences.              *)
C11_ValueNormalization ==
    /\ (norm.direct /\ norm.returned) =>
          /\ norm.value.t \in {"int64", "int"} => norm.stringValue = Decimal[norm.value.i]
          /\ norm.value.t = "string" => norm.stringValue = norm.value.s
          /\ norm.value.t \notin {"int64", "int", "string"} => norm.stringValue = ""
          /\ norm.value \in {VInt64(42), VStr("42")} => norm.stringValue = "42"
    /\ \A p \in DOMAIN inv :
          \A c \in inv[p].normalized :
              ~(c.value.t = "slice" /\ c.existingValue.t = "slice")

\* A direct call with a negative int64 of several digits has returned.
C11_Witness ==
    /\ norm.direct /\ norm.returned
    /\ norm.value = VInt64(0 - 120) /\ norm.stringValue = "-120"

(* C12.  Health probes.  Every response of LivenessProbe is the body "OK"  *)
(* (status 200), whatever the connection check would report.  A response   *)
(* of ReadinessProbe has the body "OK" exactly when the check reported     *)
(* the connection alive and no error; otherwise its status is 503 and its  *)
(* body is the error message, not "OK".                                    *)
C12_HealthProbes ==
    \A i \in DOMAIN served :
        LET r == served[i]
            up == r.conn.alive /\ ~r.conn.err
        IN  /\ r.probe = "liveness" => r.body = "OK" /\ r.status = 200
            /\ r.probe = "readiness" =>
                  /\ r.body = "OK" <=> up
                  /\ up => r.status = 200
                  /\ ~up => r.status = 503 /\ r.body = "Unable to reach Redis.\n"

\* Readiness answered 503 to a check that reported not alive without an
\* error, and OK after the connection came back; liveness answered in between.
C12_Witness ==
    \E i, j, k \in DOMAIN served :
        /\ i < j /\ j < k
        /\ served[i].probe = "readiness" /\ served[i].status = 503
        /\ ~served[i].conn.alive /\ ~served[i].conn.err
        /\ served[j].probe = "liveness" /\ ~served[j].conn.alive
        /\ served[k].probe = "readiness" /\ served[k].body = "OK"

IsPrefix(s, t) == Len(s) <= Len(t) /\ \A i \in DOMAIN s : s[i] = t[i]

(* C13.  Stage order and forward progress.  The stages an invocation has   *)
(* been through are an initial part of the one sequence of stages (each    *)
(* stage once, in order, none re-entered); no invocation ends without      *)
(* returning, whatever failed; and one that has returned has been through  *)
(* all of them.                                                            *)
C13_StageOrder ==
    \A p \in DOMAIN inv :
        /\ IsPrefix(inv[p].trace, Stages)
        /\ inv[p].pc # "panicked"
        /\ inv[p].pc = "done" => inv[p].trace = Stages

(* C14.  Last error wins.  The error an invocation returns is nil exactly  *)
(* when no stage failed (the resource query, a deletion of duplicated      *)
(* records, a connection error of one of the five chunked mutations, the   *)
(* edge query, the bulk deletion of duplicate edges); otherwise it is the  *)
(* error of the last stage that failed.  Item errors are no failure.       *)
C14_LastErrorWins ==
    \A p \in DOMAIN inv :
        inv[p].pc = "done" =>
            /\ inv[p].err = "nil" <=> inv[p].failures = <<>>
            /\ inv[p].failures # <<>> => inv[p].err = inv[p].failures[Len(inv[p].failures)]

\* The chunked mutations of the two phases: stage, response, count, items.
ResourcePhase(p) ==
    <<[stage |-> "insertResources", response |-> inv[p].insertResponse,
       count |-> inv[p].stats.TotalAdded, items |-> Len(inv[p].resourcesToAdd)],
      [stage |-> "updateResources", response |-> inv[p].updateResponse,
       count |-> inv[p].stats.TotalUpdated, items |-> Len(inv[p].resourcesToUpdate)],
      [stage |-> "deleteResources", response |-> inv[p].deleteResponse,
       count |-> inv[p].stats.TotalDeleted, items |-> Len(inv[p].deleteUIDS)]>>

EdgePhase(p) ==
    <<[stage |-> "insertEdges", response |-> inv[p].insertEdgeResponse,
       count |-> inv[p].stats.TotalEdgesAdded, items |-> Len(inv[p].edgesToAdd)],
      [stage |-> "deleteEdges", response |-> inv[p].deleteEdgeResponse,
       count |-> inv[p].stats.TotalEdgesDeleted, items |-> Len(inv[p].edgesToDelete)]>>

\* The stage ran and the executor reported a connection error for it.
Broke(p, m) == Ran(p, m.stage) /\ m.response.ConnectionError

Failed(p, stage) == \E i \in DOMAIN inv[p].failures : inv[p].failures[i] = stage

(* C16.  Query failure degrades to an empty baseline.  When the resource   *)
(* query failed, the invocation does not crash: every incoming resource    *)
(* is in resourcesToAdd, nothing is updated or deleted, the remaining      *)
(* stages run and the returned error is not nil.  When the edge query      *)
(* failed, every incoming edge is in edgesToAdd and edgesToDelete is       *)
(* empty.                                                                  *)
C16_QueryFailure ==
    \A p \in DOMAIN inv :
        /\ Failed(p, "resourceQuery") =>
              /\ inv[p].pc # "panicked"
              /\ Ran(p, "diffResources") =>
                    /\ inv[p].resourcesToAdd = inv[p].resources
                    /\ inv[p].resourcesToUpdate = <<>>
              /\ Ran(p, "deleteResources") => inv[p].deleteUIDS = <<>>
              /\ inv[p].pc = "done" => inv[p].trace = Stages /\ inv[p].err # "nil"
        /\ (Failed(p, "edgeQuery") /\ Ran(p, "diffEdges")) =>
              /\ inv[p].edgesToAdd = inv[p].edges
              /\ inv[p].edgesToDelete = <<>>

(* C17.  Query sanitization.  Every query an invocation has issued with    *)
(* the cluster name or a UID in its text (the resource query, the          *)
(* deletion of a duplicated UID, the edge query, the bulk deletion of      *)
(* duplicate edges) was built by the sanitizing function.                  *)
C17_Sanitized ==
    \A p \in DOMAIN inv : \A q \in inv[p].queries : q.sanitized

\* The records the store holds for the cluster of an invocation.
OwnNodes(p) == ClusterNodes(storeNodes, inv[p].clusterName)

OwnEdges(p) == ClusterEdges(storeEdges, inv[p].clusterName)

\* One record of each.
Once(S) == [x \in S |-> 1]

\* What the invocation has read and computed is what its cluster's part of
\* the store holds at each point, as it is when no other invocation runs.
SeesOwnCluster(p) ==
    LET c == inv[p].clusterName
        l == inv[p]
    IN  /\ l.pc = "deleteDuplicates" =>
              OwnNodes(p) = [n \in Range(l.result) |-> Occurrences(l.result, n)]
        /\ l.pc \in {"diffResources", "insertResources"} =>
              OwnNodes(p) = Once(Range(l.baseline))
        /\ Ran(p, "diffResources") =>
              /\ l.resourcesToAdd = SelectSeq(l.resources,
                                              LAMBDA r : r.UID \notin DOMAIN l.baseline)
              /\ l.resourcesToUpdate = SelectSeq(l.resources,
                                                 LAMBDA r : /\ r.UID \in DOMAIN l.baseline
                                                            /\ l.baseline[r.UID].props # r.Properties)
        /\ Ran(p, "deleteResources") =>
              /\ Range(l.deleteUIDS) = DOMAIN l.baseline \ UIDsOf(l.resources)
              /\ OwnNodes(p) = Once({Node(r.UID, c, r.Properties) : r \in Range(l.resources)})
        /\ l.pc = "dedupeEdges" =>
              /\ StoredKeys(c) = DOMAIN l.existingEdges
              /\ BagSize(OwnEdges(p)) = Cardinality(DOMAIN l.existingEdges) + l.dupCount
        /\ l.pc \in {"diffEdges", "insertEdges"} =>
              OwnEdges(p) = Once({StoredEdge(e, c) : e \in Range(l.edgeBaseline)})
        /\ Ran(p, "diffEdges") =>
              /\ Range(l.edgesToAdd) = Range(l.edges) \ Range(l.edgeBaseline)
              /\ Range(l.edgesToDelete) = Range(l.edgeBaseline) \ Range(l.edges)
        /\ Ran(p, "deleteEdges") =>
              OwnEdges(p) = Once({StoredEdge(e, c) : e \in Range(l.edges)})

\* A step leaves the locals of all invocations but one alone, and leaves
\* alone the nodes and edges of every cluster whose invocation did not move.
StepOfOne ==
    /\ \A p, q \in DOMAIN inv : p # q => inv'[p] = inv[p] \/ inv'[q] = inv[q]
    /\ \A p \in DOMAIN inv :
          inv'[p] = inv[p] =>
              /\ ClusterNodes(storeNodes', inv[p].clusterName) = OwnNodes(p)
              /\ ClusterEdges(storeEdges', inv[p].clusterName) = OwnEdges(p)

(* C18.  Concurrent clusters do not interfere.  With two invocations for   *)
(* different clusters interleaved at the store calls and UIDs unique       *)
(* across the clusters, each invocation reads, classifies and leaves for   *)
(* its cluster what it does when it runs alone: at every point its         *)
(* baseline is what the store holds for its cluster, its add, update and   *)
(* delete sets are those of its own baseline and payload, and at the end   *)
(* the store holds for its cluster the payload; no step of one invocation  *)
(* touches a node or an edge of the other cluster or the other's locals.   *)
C18_ConcurrentClusters ==
    /\ [](\A p \in DOMAIN inv : SeesOwnCluster(p))
    /\ [][StepOfOne]_vars

\* Both invocations under way at once: one has purged a duplicated UID and
\* is about to insert while the other, past its node deletion, has its
\* edge query behind it; and the first cluster's store is not empty.
C18_Witness ==
    /\ inv[1].pc = "insertResources" /\ DOMAIN inv[1].duplicatedResources # {}
    /\ inv[1].resourcesToAdd # <<>>
    /\ inv[2].pc = "dedupeEdges" /\ inv[2].deleteUIDS # <<>> /\ inv[2].dupCount > 0
    /\ OwnEdges(1) # EmptyBag

\* The number of stages that are over when the stage begins.
Before(stage) == (CHOOSE i \in DOMAIN Stages : Stages[i] = stage) - 1

Timestamps == {"NodeSyncStart", "NodeSyncEnd", "EdgeSyncStart", "EdgeSyncEnd"}

(* C19.  Phase timing.  A call that has returned has recorded the four     *)
(* timestamps, in the order NodeSyncStart, NodeSyncEnd, EdgeSyncStart,     *)
(* EdgeSyncEnd; NodeSyncStart was recorded before the deletion of          *)
(* duplicated resources began and NodeSyncEnd after the deletion of        *)
(* resources ended; EdgeSyncStart was recorded before the edge query and   *)
(* EdgeSyncEnd after the deletion of edges ended.                          *)
C19_PhaseTiming ==
    \A p \in DOMAIN inv :
        inv[p].pc = "done" =>
            /\ DOMAIN inv[p].metrics = Timestamps
            /\ inv[p].metrics["NodeSyncStart"] <= inv[p].metrics["NodeSyncEnd"]
            /\ inv[p].metrics["NodeSyncEnd"] <= inv[p].metrics["EdgeSyncStart"]
            /\ inv[p].metrics["EdgeSyncStart"] <= inv[p].metrics["EdgeSyncEnd"]
            /\ inv[p].metrics["NodeSyncStart"] <= Before("deleteDuplicates")
            /\ inv[p].metrics["NodeSyncEnd"] >= Before("deleteResources") + 1
            /\ inv[p].metrics["EdgeSyncStart"] <= Before("queryEdges")
            /\ inv[p].metrics["EdgeSyncEnd"] >= Before("deleteEdges") + 1

\* The edge diff of an invocation: the step from diffEdges to insertEdges.
EdgeDiffStep(p) == inv[p].pc = "diffEdges" /\ inv'[p].pc = "insertEdges"

(* C20.  Edge consistency check as computed.  Once the edge diff has run,  *)
(* whatever the baseline and the incoming edges (repeated edge keys and a  *)
(* failed baseline query included), existingEdgesMapLength plus the number *)
(* of edges to add minus the number of edges to delete equals the number   *)
(* of incoming edges, and the mismatch warning has not been logged; the    *)
(* diff with its checks leaves the error, the response, the record of      *)
(* failed stages and the store as they were.                               *)
C20_EdgeCountCheck ==
    /\ [](\A p \in DOMAIN inv :
             Ran(p, "diffEdges") =>
                 /\ inv[p].existingEdgesMapLength + Len(inv[p].edgesToAdd)
                       - Len(inv[p].edgesToDelete) = Len(inv[p].edges)
                 /\ "expectedEdgesMismatch" \notin inv[p].warnings)
    /\ [][\A p \in DOMAIN inv :
             EdgeDiffStep(p) =>
                 /\ inv'[p].err = inv[p].err
                 /\ inv'[p].stats = inv[p].stats
                 /\ inv'[p].failures = inv[p].failures
                 /\ storeNodes' = storeNodes /\ storeEdges' = storeEdges]_vars

\* The payload names one edge twice and the baseline holds it and another:
\* the second occurrence is added again, the other edge is deleted, and the
\* duplicate warning is logged.
C20_Witness ==
    \E p \in DOMAIN inv :
        /\ inv[p].pc = "done"
        /\ Len(inv[p].edges) = 2 /\ Cardinality(KeysOf(inv[p].edges)) = 1
        /\ inv[p].existingEdgesMapLength = 2
        /\ KeysOf(inv[p].edges) \subseteq DOMAIN inv[p].edgeBaseline
        /\ Len(inv[p].edgesToAdd) = 1 /\ Len(inv[p].edgesToDelete) = 1
        /\ "duplicateEdgesInPayload" \in inv[p].warnings

====
